---------------------------- MODULE Spec2Model ----------------------------
(***************************************************************************)
(* Model of bibxml-service's relaxed normalization pipeline                *)
(* (bib_models/util.py) and of the citation search view (main/util.py).    *)
(*                                                                         *)
(* Three specifications share the module:                                  *)
(*   Spec       a caller-owned raw record, normalize_relaxed,              *)
(*              construct_bibitem and the field normalizers applied to     *)
(*              the parts of the record;                                   *)
(*   SpecDocid  get_primary_docid on a list of document identifiers;       *)
(*   SpecView   BaseCitationSearchView serving a request.                  *)
(***************************************************************************)
EXTENDS Integers, Sequences, FiniteSets, TLC

VARIABLES
    data,       \* the raw record owned by the caller (mutated in place)
    call,       \* the last call made: function, argument, flags, exception,
                \* and whether its argument was a normalized record
    ret,        \* what the last call returned (PyNone when it raised)
    ncalls,     \* how many calls took the record so far
    normalized, \* whether the record is what a completed normalize_relaxed left
    raw_ids,    \* get_primary_docid: the argument of the last call
    docid_out,  \* get_primary_docid: returned value, warning, count logged
    view,       \* BaseCitationSearchView instance: attributes, position
    request,    \* the request the view instance serves
    cache,      \* django cache: the keys holding search results
    response    \* what get() produced: a response or an escaped exception

vars == <<data, call, ret, ncalls, normalized, raw_ids, docid_out,
          view, request, cache, response>>

recordVars == <<data, call, ret, ncalls, normalized>>
docidVars == <<raw_ids, docid_out>>
viewVars == <<view, request, cache, response>>

(***************************************************************************)
(* Bounds of the model.                                                    *)
(***************************************************************************)
MaxLen == 2      \* longest list enumerated inside a raw record
MaxCalls == 2    \* calls that take the same record
MaxIds == 3      \* longest identifier list given to get_primary_docid

(***************************************************************************)
(* Python values.  Every value carries its type tag, so that values of     *)
(* different types compare unequal instead of being incomparable.          *)
(***************************************************************************)
PyNone == [t |-> "none"]
Str(s) == [t |-> "str", v |-> s]
Bool(b) == [t |-> "bool", b |-> b]
Dict(f) == [t |-> "dict", d |-> f]
List(s) == [t |-> "list", l |-> s]
EmptyDict == Dict([k \in {} |-> PyNone])
EmptyList == List(<<>>)

IsNone(x) == x.t = "none"
IsStr(x) == x.t = "str"
IsDict(x) == x.t = "dict"
IsList(x) == x.t = "list"

\* bool(x)
Truthy(x) ==
    CASE x.t = "none" -> FALSE
      [] x.t = "str"  -> x.v # ""
      [] x.t = "bool" -> x.b
      [] x.t = "dict" -> DOMAIN x.d # {}
      [] x.t = "list" -> x.l # <<>>

\* key in x
Has(x, k) == k \in DOMAIN x.d

\* x.get(k, default)
Get(x, k, default) == IF Has(x, k) THEN x.d[k] ELSE default

\* x[k] = v
Put(x, k, v) ==
    Dict([j \in DOMAIN x.d \cup {k} |-> IF j = k THEN v ELSE x.d[j]])

\* str(x): a string is itself; anything else is rendered, deterministically
\* and never as the empty string.
PyStr(x) == IF IsStr(x) THEN x.v ELSE ToString(x)

(***************************************************************************)
(* Outcome of a call: the value it returned (NoExc), or the exception it   *)
(* raised, with in "val" the argument as the call left it (objects are     *)
(* mutated in place, and a mutation made before the raise stays).          *)
(***************************************************************************)
NoExc == "none"
Ok(v) == [val |-> v, exc |-> NoExc]
Raise(e, v) == [val |-> v, exc |-> e]
Raised(r) == r.exc # NoExc

\* The outcomes of a loop over seq whose body is rs[i]: the iterations up to
\* and including the first that raises have run, the later ones have not.
FirstRaise(rs) ==
    IF \E i \in DOMAIN rs : Raised(rs[i])
    THEN CHOOSE i \in DOMAIN rs :
             Raised(rs[i]) /\ \A j \in 1..(i - 1) : ~Raised(rs[j])
    ELSE 0

LoopExc(rs) == IF FirstRaise(rs) = 0 THEN NoExc ELSE rs[FirstRaise(rs)].exc

LoopVals(seq, rs) ==
    [i \in DOMAIN seq |->
        IF FirstRaise(rs) = 0 \/ i <= FirstRaise(rs) THEN rs[i].val ELSE seq[i]]

\* common.util.as_list
AsList(value) ==
    IF IsList(value) THEN value
    ELSE IF IsNone(value) THEN EmptyList
    ELSE List(<<value>>)

(***************************************************************************)
(* Field normalizers.                                                      *)
(***************************************************************************)
to_plain_string(raw) ==
    IF IsStr(raw) THEN raw
    ELSE IF IsDict(raw) /\ Truthy(Get(raw, "content", PyNone))
         THEN Str(PyStr(Get(raw, "content", PyNone)))
         ELSE Str(PyStr(raw))

normalize_role(raw) ==
    IF IsStr(raw) THEN Dict([type |-> raw])
    ELSE IF IsDict(raw) /\ (Has(raw, "type") \/ Has(raw, "description"))
         THEN raw
         ELSE Dict([description |-> Str(PyStr(raw))])

\* dict(content='', **fname): a keyword given twice is a TypeError.
DictContentWith(fname) ==
    IF Has(fname, "content")
    THEN Raise("TypeError", fname)
    ELSE Ok(Put(fname, "content", Str("")))

ensure_formatted_string_content(fname) ==
    IF ~IsDict(fname) THEN Raise("AttributeError", fname)
    ELSE IF ~Truthy(Get(fname, "content", PyNone))
         THEN DictContentWith(fname)
         ELSE Ok(fname)

normalize_version(raw) ==
    IF ~IsStr(raw) THEN Raise("TypeError", raw)
    ELSE Ok(Dict([draft |-> raw]))

\* TypedContact without its else branch (lines 271-273): a falsy value
\* falls through to line 275.
TypedContactNoDrop(raw, _type) ==
    IF Truthy(_type) /\ Has(raw, "value") /\ Truthy(raw.d["value"])
    THEN CASE _type = Str("email") -> <<Dict([email |-> raw.d["value"]])>>
           [] _type \in {Str("uri"), Str("url")} ->
                  <<Dict([uri |-> raw.d["value"]])>>
           [] _type = Str("phone") ->
                  <<Dict([phone |-> Dict([content |-> raw.d["value"]])])>>
           [] OTHER -> <<>>
    ELSE <<>>

\* lines 255-273: what the type and value keys decide, if they decide:
\* <<contact>>, <<None>> for a falsy value, or <<>> to go on to line 275.
TypedContact(raw, _type) ==
    IF Truthy(_type) /\ Has(raw, "value")
    THEN IF Truthy(raw.d["value"])
         THEN CASE _type = Str("email") -> <<Dict([email |-> raw.d["value"]])>>
                [] _type \in {Str("uri"), Str("url")} ->
                       <<Dict([uri |-> raw.d["value"]])>>
                [] _type = Str("phone") ->
                       <<Dict([phone |-> Dict([content |-> raw.d["value"]])])>>
                [] OTHER -> <<>>
         ELSE <<PyNone>>
    ELSE <<>>

\* lines 275-287
UntypedContact(raw) ==
    IF Has(raw, "city") \/ Has(raw, "country")
    THEN Dict([address |-> raw])
    ELSE IF Has(raw, "phone") /\ IsStr(raw.d["phone"])
    THEN Dict([phone |-> Dict([content |-> raw.d["phone"]])])
    ELSE raw

\* lines 255-287, typed what lines 255-273 decided
ContactOf(raw, typed) ==
    IF typed # <<>> THEN Ok(typed[1]) ELSE Ok(UntypedContact(raw))

\* lines 244-287
normalize_contact(raw) ==
    IF ~IsDict(raw) THEN Raise("TypeError", raw)
    ELSE ContactOf(raw, TypedContact(raw, Get(raw, "type", PyNone)))

(***************************************************************************)
(* normalize_relaxed, statement by statement.  An operator named ...Of or  *)
(* Set... is the rest of a statement, given the value its first part       *)
(* bound (the := of the source).                                           *)
(***************************************************************************)

\* [F(item) for item in seq]
Map(F(_), seq) == [i \in DOMAIN seq |-> F(seq[i])]

Vals(rs) == [i \in DOMAIN rs |-> rs[i].val]

\* Two statements in a row: the second runs unless the first raised.
Then(r, F(_)) == IF Raised(r) THEN r ELSE F(r.val)

\* obj[key] = r.val for the object r.val is a part of: parts are mutated in
\* place, so the object holds the part as the raising call left it.
SetKey(obj, key, r) == [val |-> Put(obj, key, r.val), exc |-> r.exc]

\* line 117
VersionItem(item) == IF IsStr(item) THEN normalize_version(item) ELSE Ok(item)

\* lines 115-121: the except clause swallows whatever the comprehension
\* raises and leaves data['version'] as it was.
SetVersion(d, rs) ==
    IF FirstRaise(rs) = 0 THEN Put(d, "version", List(Vals(rs))) ELSE d

\* lines 114-121
NormVersionOf(d, versions) ==
    IF Truthy(versions) THEN SetVersion(d, Map(VersionItem, versions.l)) ELSE d

\* lines 113-121: version
NormVersion(d) == NormVersionOf(d, AsList(Get(d, "version", EmptyList)))

\* lines 123-127
NormEditionOf(d, edition) ==
    IF Truthy(edition) /\ IsStr(edition)
    THEN Put(d, "edition", Dict([content |-> edition]))
    ELSE d

\* lines 123-127: edition
NormEdition(d) == NormEditionOf(d, Get(d, "edition", PyNone))

\* lines 129-133 (a list, in every record of the model)
NormKeywordOf(d, keywords) ==
    IF Truthy(keywords)
    THEN CASE IsList(keywords) ->
             Put(d, "keyword", List(Map(to_plain_string, keywords.l)))
    ELSE d

\* lines 129-133: keyword
NormKeyword(d) == NormKeywordOf(d, Get(d, "keyword", EmptyList))

\* line 152
IsContact(r) == r.val # PyNone

\* lines 145-153, given the outcomes of normalize_contact
ContactListOf(contacts, rs) ==
    IF FirstRaise(rs) # 0
    THEN Raise(LoopExc(rs), contacts)
    ELSE Ok(List(Vals(SelectSeq(rs, IsContact))))

\* lines 145-153: the comprehension that rebuilds a contact list.  Items
\* that are not dicts are skipped, and so is every item normalize_contact
\* answers None for.
ContactList(contacts) ==
    ContactListOf(contacts, Map(normalize_contact, SelectSeq(contacts.l, IsDict)))

\* lines 144-155: the except clause swallows whatever ContactList raises.
SetContacts(po, cl) == IF Raised(cl) THEN po ELSE Put(po, "contact", cl.val)

\* lines 143-155
NormContactsOf(po, contacts) ==
    IF Truthy(contacts) THEN Ok(SetContacts(po, ContactList(contacts)))
    ELSE Ok(po)

\* lines 141-155: contacts of the person or organization po
NormContacts(po) ==
    IF ~IsDict(po) THEN Raise("AttributeError", po)
    ELSE NormContactsOf(po, AsList(Get(po, "contact", EmptyList)))

\* lines 160-163, given the outcomes of ensure_formatted_string_content
SetForenames(gname, rs) ==
    IF FirstRaise(rs) # 0 THEN Raise(LoopExc(rs), gname)
    ELSE Ok(Put(gname, "forename", List(Vals(rs))))

\* lines 159-163
NormForenamesOf(gname, fnames) ==
    IF ~Truthy(fnames) THEN Ok(gname)
    ELSE SetForenames(gname, Map(ensure_formatted_string_content, fnames.l))

\* lines 159-163: forenames of the given name gname
NormForenames(gname) ==
    IF ~IsDict(gname) THEN Raise("AttributeError", gname)
    ELSE NormForenamesOf(gname, AsList(Get(gname, "forename", EmptyList)))

\* lines 165-166
SetInitials(gname, r) ==
    IF Raised(r) THEN Raise(r.exc, gname)
    ELSE Ok(Put(gname, "formatted_initials", r.val))

\* lines 164-166
NormInitialsOf(gname, fi) ==
    IF ~Truthy(fi) THEN Ok(gname)
    ELSE SetInitials(gname, ensure_formatted_string_content(fi))

\* lines 164-166: formatted_initials of the given name gname
NormInitials(gname) ==
    NormInitialsOf(gname, Get(gname, "formatted_initials", PyNone))

\* lines 159-166
NormGivenName(gname) == Then(NormForenames(gname), NormInitials)

\* lines 158-166
NormGivenOf(person, name, gname) ==
    IF ~Truthy(gname) THEN Ok(person)
    ELSE SetKey(person, "name", SetKey(name, "given", NormGivenName(gname)))

\* line 158: person.get('name', {}).get('given', None)
NormGivenIn(person, name) ==
    IF ~IsDict(name) THEN Raise("AttributeError", person)
    ELSE NormGivenOf(person, name, Get(name, "given", PyNone))

\* lines 157-166: the given name of person
NormGiven(person) == NormGivenIn(person, Get(person, "name", EmptyDict))

\* lines 141-166 for a person: contacts, then the given name
NormPerson(person) == Then(NormContacts(person), NormGiven)

\* lines 138-166: person_or_org is the person when there is one
NormPersonOrOrgOf(contributor, person, org) ==
    IF Truthy(person)
    THEN SetKey(contributor, "person", NormPerson(person))
    ELSE IF Truthy(org)
    THEN SetKey(contributor, "organization", NormContacts(org))
    ELSE Ok(contributor)

\* lines 136-166: person or organization of one contributor
NormPersonOrOrg(contributor) ==
    NormPersonOrOrgOf(contributor, Get(contributor, "person", PyNone),
                      Get(contributor, "organization", PyNone))

\* line 169
NormRolesOf(contributor, roles) ==
    IF Truthy(roles)
    THEN Put(contributor, "role", List(Map(normalize_role, roles.l)))
    ELSE contributor

\* line 168: contributor.get('role', None) or []
RoleOrEmpty(role) == IF Truthy(role) THEN role ELSE EmptyList

\* lines 168-169: roles of one contributor
NormRoles(contributor) ==
    Ok(NormRolesOf(contributor,
                   AsList(RoleOrEmpty(Get(contributor, "role", PyNone)))))

\* lines 136-169: the body of the loop over contributors
NormContributor(contributor) ==
    IF ~IsDict(contributor) THEN Raise("AttributeError", contributor)
    ELSE Then(NormPersonOrOrg(contributor), NormRoles)

\* A loop over the list d[key] that mutates its items in place.
Loop(d, key, seq, rs) ==
    [val |-> Put(d, key, List(LoopVals(seq, rs))), exc |-> LoopExc(rs)]

\* line 135: the loop.  None is not iterable; a list is walked; the items
\* of a non-empty string or the keys of a non-empty dict are strings, which
\* have no get().
NormContributorsOf(d, cs) ==
    CASE IsNone(cs) -> Raise("TypeError", d)
      [] IsList(cs) ->
             IF cs.l = <<>> THEN Ok(d)
             ELSE Loop(d, "contributor", cs.l, Map(NormContributor, cs.l))
      [] IsStr(cs) \/ IsDict(cs) ->
             IF Truthy(cs) THEN Raise("AttributeError", d) ELSE Ok(d)

\* lines 135-169: contributor
NormContributors(d) == NormContributorsOf(d, Get(d, "contributor", EmptyList))

\* KeepRelation testing for the key instead of the value: 'bibitem' in r.
KeepRelationByKey(r) == Has(r, "bibitem")

\* line 178: the filter of the comprehension over relations
KeepRelation(r) == Truthy(Get(r, "bibitem", PyNone))

\* lines 173-176: {"bibitem": normalize_relaxed(bibitem), **r}.  r's own
\* bibitem, unpacked last, is the object normalize_relaxed mutated and
\* returned, so the entry holds the normalized bibitem either way.
RelationEntry(r, bibitem) ==
    Dict([k \in DOMAIN r.d \cup {"bibitem"} |->
             IF k = "bibitem" THEN bibitem ELSE r.d[k]])

\* lines 173-176, given the outcome of the recursive call
SetBibitem(r, b) ==
    [val |-> RelationEntry(r, b.val), exc |-> b.exc, keep |-> TRUE]

RECURSIVE normalize_relaxed(_)

\* lines 173-178: one relation.  "keep" tells whether the comprehension
\* yields an entry for it.
RelationItem(r) ==
    IF ~IsDict(r) THEN [val |-> r, exc |-> "AttributeError", keep |-> FALSE]
    ELSE IF ~KeepRelation(r) THEN [val |-> r, exc |-> NoExc, keep |-> FALSE]
    ELSE SetBibitem(r, normalize_relaxed(r.d["bibitem"]))

Kept(r) == r.keep

\* lines 172-179.  A raise leaves data['relation'] unassigned; the
\* bibitems walked so far stay mutated in place.
RelationsOf(d, relations, rs) ==
    IF FirstRaise(rs) # 0
    THEN Raise(LoopExc(rs), Put(d, "relation", List(LoopVals(relations.l, rs))))
    ELSE Ok(Put(d, "relation", List(Vals(SelectSeq(rs, Kept)))))

\* lines 171-179 (a list, in every record of the model)
NormRelationsOf(d, relations) ==
    IF ~Truthy(relations) THEN Ok(d)
    ELSE CASE IsList(relations) ->
             RelationsOf(d, relations, Map(RelationItem, relations.l))

\* lines 171-179: relation
NormRelations(d) == NormRelationsOf(d, Get(d, "relation", EmptyList))

\* lines 100-181
normalize_relaxed(d) ==
    IF ~IsDict(d) THEN Raise("AttributeError", d)
    ELSE Then(NormContributors(NormKeyword(NormEdition(NormVersion(d)))),
              NormRelations)

(***************************************************************************)
(* construct_bibitem.  The schema (relaton's BibliographicItem) is not     *)
(* part of this code: whether it accepts the record is an input, valid.    *)
(***************************************************************************)
BibliographicItem(d, validated) ==
    [t |-> "BibliographicItem", fields |-> d.d, validated |-> validated]

ValidationErrors == List(<<Str("value_error")>>)

\* Discard without the except clause: the exception leaves construct_bibitem.
Propagate(r) == [val |-> r.val, exc |-> r.exc, swallowed |-> NoExc]

\* lines 46-47: except Exception: pass
Discard(r) == [val |-> r.val, exc |-> NoExc, swallowed |-> r.exc]

\* lines 44-47: normalize_relaxed(data), any exception discarded
NormalizeDiscarding(d) == Discard(normalize_relaxed(d))

\* lines 49-62, n the outcome of lines 44-47.  "val" is the record as the
\* call left it, "ret" the tuple returned, "swallowed" what line 46 caught.
Construct(n, strict, valid) ==
    [val |-> n.val,
     swallowed |-> n.swallowed,
     exc |-> IF Raised(n) THEN n.exc
             ELSE IF ~valid /\ strict THEN "ValidationError" ELSE NoExc,
     ret |-> IF Raised(n) \/ (~valid /\ strict) THEN PyNone
             ELSE IF valid
             THEN List(<<BibliographicItem(n.val, TRUE), PyNone>>)
             ELSE List(<<BibliographicItem(n.val, FALSE), ValidationErrors>>)]

\* lines 14-62
construct_bibitem(d, strict, valid) ==
    Construct(NormalizeDiscarding(d), strict, valid)

(***************************************************************************)
(* The raw records a caller holds.                                         *)
(***************************************************************************)
Range(seq) == {seq[i] : i \in DOMAIN seq}
SeqsUpTo(S, n) == UNION {[1..k -> S] : k \in 0..n}
ListsOver(S) == {List(q) : q \in SeqsUpTo(S, MaxLen)}

VersionValues ==
    {PyNone, Str("1.0"), Dict([draft |-> Str("1.0")])}
        \cup ListsOver({Str("1.0"), Dict([draft |-> Str("2.0")])})

EditionValues ==
    {PyNone, Str(""), Str("2nd"), Dict([content |-> Str("2nd")])}

KeywordValues ==
    ListsOver({Str("k"), Dict([content |-> Str("k")]),
               Dict([content |-> Str("")]), Dict([language |-> Str("en")])})

ContactShapes ==
    {Dict([type |-> Str("email"), value |-> Str("a@b.com")]),
     Dict([type |-> Str("uri"), value |-> Str("https://x")]),
     Dict([type |-> Str("url"), value |-> Str("https://x")]),
     Dict([type |-> Str("phone"), value |-> Str("123")]),
     Dict([type |-> Str("email"), value |-> Str("")]),
     Dict([type |-> Str("email"), value |-> PyNone, city |-> Str("X")]),
     Dict([type |-> Str("phone"), value |-> Str(""), phone |-> Str("123")]),
     Dict([type |-> Str(""), value |-> Str("")]),
     Dict([type |-> PyNone, value |-> Str("a@b.com"), country |-> Str("Y")]),
     Dict([type |-> Str("fax"), value |-> Str("1")]),
     Dict([type |-> Str("fax"), value |-> Str("1"), city |-> Str("X")]),
     Dict([type |-> Str("email")]),
     Dict([type |-> Str("email"), city |-> Str("X")]),
     Dict([value |-> Str("a@b.com")]),
     Dict([city |-> Str("X")]),
     Dict([country |-> Str("Y"), phone |-> Str("123")]),
     Dict([phone |-> Str("123")]),
     Dict([phone |-> Dict([content |-> Str("123")])]),
     Dict([email |-> Str("a@b.com")]),
     EmptyDict,
     Str("a@b.com")}

ContactListItems ==
    {Dict([type |-> Str("email"), value |-> Str("a@b.com")]),
     Dict([type |-> Str("email"), value |-> Str("")]),
     Dict([city |-> Str("X")]),
     Dict([email |-> Str("a@b.com")]),
     Str("a@b.com")}

ContactValues == ContactShapes \cup ListsOver(ContactListItems) \cup {PyNone}

ForenameShapes ==
    {EmptyDict, Dict([content |-> Str("Jane")]), Dict([content |-> Str("")]),
     Dict([content |-> PyNone]), Dict([language |-> Str("en")])}

ForenameValues == ForenameShapes \cup ListsOver(ForenameShapes)

InitialsValues ==
    {EmptyDict, Dict([content |-> Str("J.")]), Dict([content |-> Str("")]),
     Dict([language |-> Str("en")])}

RoleShapes ==
    {Str("editor"), Dict([type |-> Str("author")]),
     Dict([description |-> Str("sponsor")]), Dict([foo |-> Str("bar")])}

RoleValues == {PyNone, Str("editor")} \cup ListsOver(RoleShapes)

Record1(k, v) == Dict([j \in {k} |-> v])
OneContributor(c) == Record1("contributor", List(<<c>>))
Named(given) == Record1("person", Record1("name", Record1("given", given)))

ContactRecords ==
    {OneContributor(Record1(k, Record1("contact", c))) :
        k \in {"person", "organization"}, c \in ContactValues}

NameRecords ==
    {OneContributor(Named(Record1("forename", f))) : f \in ForenameValues}
    \cup {OneContributor(Named(Record1("formatted_initials", fi))) :
            fi \in InitialsValues}
    \cup {OneContributor(Named(Dict([forename |-> List(<<f>>),
                                     formatted_initials |-> fi]))) :
            f \in {EmptyDict, Dict([content |-> Str("")])},
            fi \in InitialsValues}

RoleRecords ==
    {OneContributor(Dict([organization |-> Record1("name", Str("IETF")),
                          role |-> r])) : r \in RoleValues}

\* Records whose contributors are not what the code expects.
OddRecords ==
    {Record1("contributor", PyNone),
     Record1("contributor", EmptyList),
     OneContributor(Str("Jane")),
     OneContributor(EmptyDict),
     OneContributor(Record1("person", Str("Jane"))),
     OneContributor(Record1("person", Record1("name", PyNone))),
     OneContributor(Record1("person", Record1("name", Str("Jane")))),
     OneContributor(Named(Str("Jane"))),
     Dict([contributor |->
             List(<<Dict([person |->
                            Dict([contact |-> Dict([phone |-> Str("123")]),
                                  name |-> PyNone]),
                          role |-> Str("editor")]),
                    Dict([role |-> Str("author")])>>)]),
     Dict([contributor |->
             List(<<Dict([role |-> Str("editor")]),
                    Named(Record1("forename", Dict([content |-> Str("")]))),
                    Dict([role |-> Str("author")])>>)])}

FullRecord ==
    Dict([version |-> Str("1.0"),
          edition |-> Str("2nd"),
          keyword |-> List(<<Dict([content |-> Str("k")])>>),
          docid |-> List(<<Dict([id |-> Str("A"), type |-> Str("DOI")])>>),
          contributor |->
              List(<<Dict([person |->
                             Dict([contact |->
                                     List(<<Dict([type |-> Str("email"),
                                                  value |-> Str("")]),
                                            Dict([city |-> Str("X")])>>),
                                   name |->
                                     Record1("given",
                                        Record1("forename",
                                                List(<<EmptyDict>>)))]),
                           organization |->
                             Record1("contact", Dict([phone |-> Str("123")])),
                           role |-> Str("editor")])>>)])

LeafRecords ==
    {Record1("title", Str("X")),
     Dict([title |-> Str("X"), edition |-> Str("2nd")]),
     OneContributor(Named(Record1("forename", List(<<EmptyDict>>)))),
     OneContributor(Named(Record1("forename", Dict([content |-> Str("")])))),
     Record1("relation",
             List(<<Dict([type |-> Str("updates"),
                          bibitem |-> Record1("edition", Str("1st"))]),
                    Record1("type", Str("obsoletes"))>>))}

RelationEntries ==
    {Dict([type |-> Str("includes"), bibitem |-> b]) : b \in LeafRecords}
    \cup {Record1("type", Str("includes")),
          Dict([type |-> Str("includes"), bibitem |-> EmptyDict]),
          Record1("bibitem", PyNone),
          Record1("bibitem", Str("ref"))}

RelationRecords ==
    {Record1("relation", r) : r \in ListsOver(RelationEntries)}

RawRecords ==
    {Record1("version", v) : v \in VersionValues}
    \cup {Record1("edition", e) : e \in EditionValues}
    \cup {Record1("keyword", k) : k \in KeywordValues}
    \cup ContactRecords \cup NameRecords \cup RoleRecords \cup OddRecords
    \cup RelationRecords \cup {FullRecord, EmptyDict}

\* The contact entries and formatted strings found in a record.
PersonsAndOrgs(d) ==
    LET cs == Get(d, "contributor", EmptyList)
    IN  IF ~IsList(cs) THEN {}
        ELSE {Get(c, k, PyNone) : c \in {x \in Range(cs.l) : IsDict(x)},
                                  k \in {"person", "organization"}}

ContactsOf(d) ==
    UNION {Range(AsList(Get(po, "contact", EmptyList)).l) :
             po \in {x \in PersonsAndOrgs(d) : IsDict(x)}}

GivenNamesOf(d) ==
    LET cs == Get(d, "contributor", EmptyList)
        Sub(x, k) == IF IsDict(x) THEN Get(x, k, PyNone) ELSE PyNone
    IN  IF ~IsList(cs) THEN {}
        ELSE {g \in {Sub(Sub(Sub(c, "person"), "name"), "given") :
                        c \in Range(cs.l)} : IsDict(g)}

FormattedStringsOf(d) ==
    UNION {Range(AsList(Get(g, "forename", EmptyList)).l)
              \cup ({Get(g, "formatted_initials", PyNone)} \ {PyNone}) :
           g \in GivenNamesOf(d)}

(***************************************************************************)
(* Spec: a caller holding one raw record.                                  *)
(***************************************************************************)
NoCall == [fn |-> "none", arg |-> PyNone, exc |-> NoExc,
           strict |-> FALSE, valid |-> FALSE, again |-> FALSE]

DocidIdle == [called |-> FALSE, ret |-> PyNone, warned |-> FALSE, count |-> 0]
ViewIdle == [pc |-> "idle", query_in_path |-> FALSE,
             show_all_by_default |-> FALSE,
             query |-> PyNone, query_format |-> PyNone]
RequestIdle == [query |-> PyNone, query_format |-> PyNone, path |-> PyNone]
NoResponse == [kind |-> "none", status |-> 0, body |-> ""]

RecordIdle ==
    /\ data = EmptyDict /\ call = NoCall /\ ret = PyNone
    /\ ncalls = 0 /\ normalized = FALSE
DocidInit == raw_ids = <<>> /\ docid_out = DocidIdle
ViewIdleInit ==
    /\ view = ViewIdle /\ request = RequestIdle
    /\ cache = {} /\ response = NoResponse

Init ==
    /\ data \in RawRecords
    /\ call = NoCall /\ ret = PyNone /\ ncalls = 0 /\ normalized = FALSE
    /\ DocidInit /\ ViewIdleInit

\* The caller's state after a call that took the record.
Called(fn, r, strict, valid, value, completed) ==
    /\ data' = r.val
    /\ call' = [fn |-> fn, arg |-> data, exc |-> r.exc,
                strict |-> strict, valid |-> valid, again |-> normalized]
    /\ ret' = value
    /\ normalized' = completed
    /\ ncalls' = ncalls + 1

ReturnOf(r) == IF Raised(r) THEN PyNone ELSE r.val

NormalizeReturned(r) ==
    Called("normalize_relaxed", r, FALSE, FALSE, ReturnOf(r), ~Raised(r))

\* normalize_relaxed(data): the record is mutated in place and returned.
NormalizeRelaxed ==
    /\ ncalls < MaxCalls
    /\ NormalizeReturned(normalize_relaxed(data))
    /\ UNCHANGED <<docidVars, viewVars>>

ConstructReturned(r, strict, valid) ==
    Called("construct_bibitem", r, strict, valid, r.ret, r.swallowed = NoExc)

\* construct_bibitem(data, strict), the schema accepting the record or not.
ConstructBibitem(strict, valid) ==
    /\ ncalls < MaxCalls
    /\ ConstructReturned(construct_bibitem(data, strict, valid), strict, valid)
    /\ UNCHANGED <<docidVars, viewVars>>

\* The caller's state after a call of a field normalizer.
FieldCalled(fn, arg, r) ==
    /\ call' = [fn |-> fn, arg |-> arg, exc |-> r.exc,
                strict |-> FALSE, valid |-> FALSE, again |-> FALSE]
    /\ ret' = ReturnOf(r)
    /\ UNCHANGED <<data, ncalls, normalized>>

\* normalize_contact(item), item an entry of a contact list of the record.
NormalizeContact(item) ==
    /\ FieldCalled("normalize_contact", item, normalize_contact(item))
    /\ UNCHANGED <<docidVars, viewVars>>

\* ensure_formatted_string_content(fname), fname a forename or the
\* formatted initials of a contributor of the record.
EnsureFormattedStringContent(fname) ==
    /\ FieldCalled("ensure_formatted_string_content", fname,
                   ensure_formatted_string_content(fname))
    /\ UNCHANGED <<docidVars, viewVars>>

Next ==
    \/ NormalizeRelaxed
    \/ \E strict \in BOOLEAN, valid \in BOOLEAN : ConstructBibitem(strict, valid)
    \/ \E item \in ContactsOf(data) : NormalizeContact(item)
    \/ \E fname \in FormattedStringsOf(data) : EnsureFormattedStringContent(fname)

Spec == Init /\ [][Next]_vars

(***************************************************************************)
(* get_primary_docid.                                                      *)
(***************************************************************************)
DocID(id, type, scope, primary) ==
    [id |-> id, type |-> type, scope |-> scope, primary |-> primary]

\* IsPrimaryDocid without the test of line 81.
IsPrimaryIgnoringScope(docid) ==
    /\ docid.primary = Bool(TRUE)
    /\ docid.id # PyNone
    /\ docid.type # PyNone

\* lines 76-82.  "primary is True" holds of the boolean True alone.
IsPrimaryDocid(docid) ==
    /\ docid.primary = Bool(TRUE)
    /\ docid.id # PyNone
    /\ docid.type # PyNone
    /\ docid.scope = PyNone

\* line 85: frozenset([id.id, id.type])
IdTypeSet(docid) == {docid.id, docid.type}

\* line 85
Deduped(primary_docids) == {IdTypeSet(docid) : docid \in Range(primary_docids)}

\* lines 94-97
FirstOrNone(primary_docids) ==
    IF primary_docids # <<>> THEN primary_docids[1] ELSE PyNone

\* lines 85-97, primary_docids the list of lines 74-83
SelectPrimary(primary_docids) ==
    [called |-> TRUE,
     ret |-> FirstOrNone(primary_docids),
     warned |-> Cardinality(Deduped(primary_docids)) # 1,
     count |-> Len(primary_docids)]

\* lines 65-97
get_primary_docid(ids) == SelectPrimary(SelectSeq(ids, IsPrimaryDocid))

DocIDs ==
    {DocID(Str(i), Str(t), PyNone, Bool(TRUE)) : i \in {"A", "B"}, t \in {"A", "B"}}
    \cup {DocID(Str("A"), Str("B"), PyNone, Bool(FALSE)),
          DocID(Str("A"), Str("B"), PyNone, PyNone),
          DocID(PyNone, Str("B"), PyNone, Bool(TRUE)),
          DocID(Str("A"), PyNone, PyNone, Bool(TRUE)),
          DocID(Str("A"), Str("B"), Str("part"), Bool(TRUE))}

InitDocid ==
    /\ raw_ids \in SeqsUpTo(DocIDs, MaxIds)
    /\ docid_out = DocidIdle
    /\ RecordIdle /\ ViewIdleInit

GetPrimaryDocid ==
    /\ docid_out' = get_primary_docid(raw_ids)
    /\ UNCHANGED <<raw_ids, recordVars, viewVars>>

NextDocid == GetPrimaryDocid

SpecDocid == InitDocid /\ [][NextDocid]_vars

(***************************************************************************)
(* BaseCitationSearchView.                                                 *)
(***************************************************************************)
supported_query_formats == {"json_repr", "json_struct"}

\* The query formats requests come with, and str.lower() of each.
QueryFormats ==
    {"json_repr", "json_struct", "JSON_REPR", "Json_Struct", "xml", ""}

Lower(f) ==
    CASE f \in {"json_repr", "JSON_REPR"} -> "json_repr"
      [] f \in {"json_struct", "Json_Struct"} -> "json_struct"
      [] f = "xml" -> "xml"
      [] f = "" -> ""

\* The query strings requests come with, and json.loads() of each.
Queries == {"", "rfc 7991", "{}", "null"}

JsonLoads(q) ==
    CASE q = "{}" -> Ok(EmptyDict)
      [] q = "null" -> Ok(PyNone)
      [] q \in {"", "rfc 7991", " "} -> Raise("JSONDecodeError", PyNone)

\* The query path components requests come with, and
\* unquote_plus(...).strip() of each.
PathQueries == {"", "%20", "rfc+7991", "%7B%7D", "null"}

UnquotePlusStrip(q) ==
    CASE q = "" -> ""
      [] q = "%20" -> ""
      [] q = "rfc+7991" -> "rfc 7991"
      [] q = "%7B%7D" -> "{}"
      [] q = "null" -> "null"

\* The methods named parse_..._query and handle_..._query of the class.
ParserNames == {"parse_json_repr_query", "parse_json_struct_query",
                "parse_unsupported_query"}
HandlerNames == {"handle_json_repr_query", "handle_json_struct_query"}

\* lines 189-190
parse_json_repr_query(query) == Ok(query)

\* lines 214-220: a JSONDecodeError becomes a ValueError
JsonStruct(r) == IF Raised(r) THEN Raise("ValueError", PyNone) ELSE r

parse_json_struct_query(query) == JsonStruct(JsonLoads(query.v))

\* lines 186-187, called as parser(query) on line 168: the bound method
\* takes query_format and query, and is given one argument.
parse_unsupported_query(query) == Raise("TypeError", PyNone)

\* lines 160-166: the parser chosen for query_format
Parser(query_format) ==
    IF Lower(query_format) \in supported_query_formats
    THEN IF ("parse_" \o Lower(query_format) \o "_query") \in ParserNames
         THEN "parse_" \o Lower(query_format) \o "_query"
         ELSE "parse_unsupported_query"
    ELSE "parse_unsupported_query"

\* line 168: parser(query)
Parse(parser, query) ==
    CASE parser = "parse_json_repr_query" -> parse_json_repr_query(query)
      [] parser = "parse_json_struct_query" -> parse_json_struct_query(query)
      [] parser = "parse_unsupported_query" -> parse_unsupported_query(query)

\* lines 152-155
RequestQuery(v, req) ==
    IF ~v.query_in_path THEN req.query
    ELSE Str(UnquotePlusStrip(IF req.path = PyNone THEN "" ELSE req.path.v))

\* line 157
RequestFormat(req) ==
    IF req.query_format = PyNone THEN Str("json_repr") ELSE req.query_format

\* lines 168-169: the attributes are assigned unless the parser raised
SetQuery(v, parsed, query_format) ==
    [val |-> IF Raised(parsed) THEN v
             ELSE [v EXCEPT !.query = parsed.val, !.query_format = query_format],
     exc |-> parsed.exc]

\* lines 159-173
ParseQueryOf(v, query, query_format) ==
    IF Truthy(query)
    THEN SetQuery(v, Parse(Parser(query_format.v), query), query_format)
    ELSE Ok([v EXCEPT !.query = PyNone, !.query_format = PyNone])

\* lines 143-173
dispatch_parse_query(v, req) ==
    ParseQueryOf(v, RequestQuery(v, req), RequestFormat(req))

HttpResponseBadRequest(body) == [kind |-> "response", status |-> 400, body |-> body]
HttpResponseOk == [kind |-> "response", status |-> 200, body |-> "results"]
Escaped(exc) == [kind |-> "exception", status |-> 500, body |-> exc]

\* lines 76-79: UnsupportedQueryFormat is a ValueError (line 228); any
\* other exception leaves get().
Caught(exc) ==
    CASE exc = "UnsupportedQueryFormat" ->
             HttpResponseBadRequest("Unsupported query format")
      [] exc = "ValueError" -> HttpResponseBadRequest("Unable to parse query")
      [] OTHER -> Escaped(exc)

\* line 181: getattr(self, 'handle_%s_query' % self.query_format)
HasHandler(query_format) ==
    ("handle_" \o query_format.v \o "_query") \in HandlerNames

\* lines 175-184
dispatch_handle_query(v) ==
    IF HasHandler(v.query_format) THEN Ok(v.query)
    ELSE Raise("AttributeError", PyNone)

\* lines 124-129: the cache key (limit_to is the same for every request)
CacheKey(v) == <<v.query, v.query_format, v.show_all_by_default>>

\* lines 111-121: result_getter()
ResultGetter(v) ==
    IF v.query # PyNone /\ v.query_format # PyNone
    THEN dispatch_handle_query(v)
    ELSE Ok(PyNone)

\* lines 123-131: cache.get_or_set calls result_getter on a miss
get_queryset(v, cached) ==
    IF CacheKey(v) \in cached THEN Ok(PyNone) ELSE ResultGetter(v)

Requests(in_path) ==
    {[query |-> IF in_path THEN PyNone ELSE q,
      path |-> IF in_path THEN p ELSE PyNone,
      query_format |-> f] :
        q \in {PyNone} \cup {Str(x) : x \in Queries},
        p \in {PyNone} \cup {Str(x) : x \in PathQueries},
        f \in {PyNone} \cup {Str(x) : x \in QueryFormats}}

NewView(in_path, show_all) ==
    [pc |-> "get", query_in_path |-> in_path, show_all_by_default |-> show_all,
     query |-> PyNone, query_format |-> PyNone]

InitView ==
    /\ \E in_path \in BOOLEAN, show_all \in BOOLEAN :
          /\ view = NewView(in_path, show_all)
          /\ request \in Requests(in_path)
    /\ cache = {}
    /\ response = NoResponse
    /\ RecordIdle /\ DocidInit

\* The state after lines 74-79, r the outcome of dispatch_parse_query.
Parsed(r) ==
    /\ view' = [r.val EXCEPT !.pc = IF Raised(r) THEN "done" ELSE "parsed"]
    /\ response' = IF Raised(r) THEN Caught(r.exc) ELSE NoResponse

\* get(), lines 74-79
DispatchParseQuery ==
    /\ view.pc = "get"
    /\ Parsed(dispatch_parse_query(view, request))
    /\ UNCHANGED <<request, cache, recordVars, docidVars>>

\* The state after line 81, r the outcome of get_queryset.
Listed(r) ==
    /\ view' = [view EXCEPT !.pc = "done"]
    /\ response' = IF Raised(r) THEN Escaped(r.exc) ELSE HttpResponseOk
    /\ cache' = IF Raised(r) THEN cache ELSE cache \cup {CacheKey(view)}

\* get(), line 81: the list view's get(), which calls get_queryset
GetQueryset ==
    /\ view.pc = "parsed"
    /\ Listed(get_queryset(view, cache))
    /\ UNCHANGED <<request, recordVars, docidVars>>

\* The next request: as_view() makes a new instance of the same class.
NextRequest(req) ==
    /\ view.pc = "done"
    /\ view' = NewView(view.query_in_path, view.show_all_by_default)
    /\ request' = req
    /\ response' = NoResponse
    /\ UNCHANGED <<cache, recordVars, docidVars>>

\* result_cache_seconds have passed for a key
CacheExpire(key) ==
    /\ cache' = cache \ {key}
    /\ UNCHANGED <<view, request, response, recordVars, docidVars>>

NextView ==
    \/ DispatchParseQuery
    \/ GetQueryset
    \/ \E req \in Requests(view.query_in_path) : NextRequest(req)
    \/ \E key \in cache : CacheExpire(key)

SpecView == InitView /\ [][NextView]_vars

(***************************************************************************)
(* Properties of Spec.                                                     *)
(***************************************************************************)
NormalizeCalled == call.fn = "normalize_relaxed"

\* C1: normalize_relaxed is idempotent: applied to a record a completed
\* normalize_relaxed left, it completes and leaves the record as it was.
C1_Idempotent ==
    (NormalizeCalled /\ call.again) => (call.exc = NoExc /\ data = call.arg)

\* C2: normalize_relaxed never raises to its caller, whatever the record (a
\* mapping whose fields have the shapes the code reads): version, contact,
\* forename and relation steps swallow their exceptions.  The one exception
\* the claim allows, from normalizing a role, does not exist: normalize_role
\* raises nothing.
C2_NeverRaises ==
    (NormalizeCalled /\ call.arg \notin OddRecords) => call.exc = NoExc

\* C3: construct_bibitem runs normalize_relaxed first and discards what it
\* raises; a record the schema accepts gives (item, None); one it rejects
\* raises the validation error when strict, and otherwise gives a
\* best-effort item of the same fields and the list of errors, both not None.
C3_ConstructOutcome ==
    call.fn = "construct_bibitem" =>
        /\ data = normalize_relaxed(call.arg).val
        /\ call.valid =>
              /\ call.exc = NoExc
              /\ ret = List(<<[t |-> "BibliographicItem", fields |-> data.d,
                               validated |-> TRUE], PyNone>>)
        /\ (~call.valid /\ call.strict) => call.exc = "ValidationError"
        /\ (~call.valid /\ ~call.strict) =>
              /\ call.exc = NoExc
              /\ IsList(ret) /\ Len(ret.l) = 2
              /\ ret.l[1] # PyNone /\ ret.l[2] # PyNone
              /\ ret.l[1].fields = data.d /\ ~ret.l[1].validated
              /\ IsList(ret.l[2]) /\ ret.l[2].l # <<>>

\* C3's case: the schema rejects the record, strict is false, and
\* normalize_relaxed raised on the way; the call still returns.
C3_Witness ==
    /\ call.fn = "construct_bibitem" /\ ~call.valid /\ ~call.strict
    /\ Raised(normalize_relaxed(call.arg))
    /\ data # call.arg
    /\ call.exc = NoExc /\ ret.l[2] = ValidationErrors

\* C6: ensure_formatted_string_content does not raise on a mapping; content
\* absent or falsy gives the mapping with content "" and its other keys,
\* a truthy content gives the mapping unchanged.
C6_EnsuresContent ==
    (call.fn = "ensure_formatted_string_content" /\ IsDict(call.arg)) =>
        /\ call.exc = NoExc
        /\ IF Has(call.arg, "content") /\ Truthy(call.arg.d["content"])
           THEN ret = call.arg
           ELSE /\ IsDict(ret)
                /\ DOMAIN ret.d = DOMAIN call.arg.d \cup {"content"}
                /\ ret.d["content"] = Str("")
                /\ \A k \in DOMAIN call.arg.d \ {"content"} :
                       ret.d[k] = call.arg.d[k]

\* The relation list a completed normalize_relaxed was given, when it holds
\* entries.
RelationsGiven ==
    IF NormalizeCalled /\ call.exc = NoExc /\ IsDict(call.arg)
       /\ Has(call.arg, "relation") /\ Truthy(call.arg.d["relation"])
    THEN call.arg.d["relation"].l
    ELSE <<>>

HasBibitemKey(r) == "bibitem" \in DOMAIN r.d
HasBibitem(r) == "bibitem" \in DOMAIN r.d /\ Truthy(r.d["bibitem"])

\* An entry with its bibitem normalized and its other keys as they were.
WithNormalizedBibitem(r) ==
    Dict([k \in DOMAIN r.d |->
             IF k = "bibitem" THEN normalize_relaxed(r.d[k]).val ELSE r.d[k]])

\* Every bibitem given is a mapping (possibly an empty one).
BibitemsAreMappings ==
    \A i \in DOMAIN RelationsGiven :
        HasBibitemKey(RelationsGiven[i]) => IsDict(RelationsGiven[i].d["bibitem"])

\* C7, as claimed: after normalize_relaxed the relation list is the entries
\* that have a bibitem key, in order, each with its other keys unchanged and
\* its bibitem normalized; only an entry without the key is dropped.
\* (Stated of the records whose bibitems are mappings.)
C7_DropsOnlyKeyless ==
    (RelationsGiven # <<>> /\ BibitemsAreMappings) =>
        data.d["relation"] =
            List(Map(WithNormalizedBibitem,
                     SelectSeq(RelationsGiven, HasBibitemKey)))

\* C7, amended: the entries kept are those whose bibitem is present and
\* truthy; an entry whose bibitem is None or an empty mapping is dropped
\* like one without the key.
C7_DropsFalsyBibitem ==
    RelationsGiven # <<>> =>
        data.d["relation"] =
            List(Map(WithNormalizedBibitem,
                     SelectSeq(RelationsGiven, HasBibitem)))

\* C7's case: of two relations, one is kept with its bibitem rewritten by
\* the recursive call and its type as it was, the other has a bibitem key
\* holding an empty mapping and is dropped.
C7_Witness ==
    /\ Len(RelationsGiven) = 2
    /\ HasBibitem(RelationsGiven[1])
    /\ normalize_relaxed(RelationsGiven[1].d["bibitem"]).val
          # RelationsGiven[1].d["bibitem"]
    /\ RelationsGiven[2] = Dict([type |-> Str("includes"), bibitem |-> EmptyDict])
    /\ Len(data.d["relation"].l) = 1
    /\ data.d["relation"].l[1].d["type"] = Str("includes")

\* The decision table of normalize_contact, given how "type present" reads:
\* (a) type and a non-empty value, for the types email, uri, url and phone;
\* (b) type and a falsy value: no contact; (c) city or country: an address;
\* (d) a phone string: a phone; (e) the mapping itself.
ContactRule(raw, typePresent) ==
    LET valued == typePresent /\ "value" \in DOMAIN raw.d
        value == raw.d["value"]
        type == raw.d["type"]
    IN  IF valued /\ Truthy(value)
              /\ type \in {Str("email"), Str("uri"), Str("url"), Str("phone")}
        THEN CASE type = Str("email") -> Dict([email |-> value])
               [] type = Str("phone") -> Dict([phone |-> Dict([content |-> value])])
               [] OTHER -> Dict([uri |-> value])
        ELSE IF valued /\ ~Truthy(value) THEN PyNone
        ELSE IF {"city", "country"} \cap DOMAIN raw.d # {}
        THEN Dict([address |-> raw])
        ELSE IF "phone" \in DOMAIN raw.d /\ IsStr(raw.d["phone"])
        THEN Dict([phone |-> Dict([content |-> raw.d["phone"]])])
        ELSE raw

TypeKeyPresent(raw) == "type" \in DOMAIN raw.d
TypeNonEmpty(raw) == "type" \in DOMAIN raw.d /\ Truthy(raw.d["type"])

ContactByKey(raw) == ContactRule(raw, TypeKeyPresent(raw))
ContactByValue(raw) == ContactRule(raw, TypeNonEmpty(raw))
NotNone(x) == x # PyNone

\* The contributors of the record a completed normalize_relaxed was given
\* whose person (or, without a person, organization) holds contacts: the
\* pairs <<index, key>>.
ContactHolders ==
    IF NormalizeCalled /\ call.exc = NoExc /\ IsDict(call.arg)
       /\ Has(call.arg, "contributor") /\ IsList(call.arg.d["contributor"])
    THEN {h \in (DOMAIN call.arg.d["contributor"].l) \X {"person", "organization"} :
            LET c == call.arg.d["contributor"].l[h[1]]
            IN  /\ IsDict(c) /\ Has(c, h[2]) /\ IsDict(c.d[h[2]])
                /\ Truthy(c.d[h[2]])
                /\ h[2] = "organization" => ~Truthy(Get(c, "person", PyNone))
                /\ Truthy(AsList(Get(c.d[h[2]], "contact", PyNone)))}
    ELSE {}

ContactsGiven(h) ==
    AsList(call.arg.d["contributor"].l[h[1]].d[h[2]].d["contact"]).l
ContactsLeft(h) == data.d["contributor"].l[h[1]].d[h[2]].d["contact"]

\* C8, as claimed, with "type present" read as the key being there.
C8_DecidesByTypeKey ==
    /\ call.fn = "normalize_contact" =>
          IF IsDict(call.arg)
          THEN call.exc = NoExc /\ ret = ContactByKey(call.arg)
          ELSE call.exc = "TypeError"
    /\ \A h \in ContactHolders :
          ContactsLeft(h) =
              List(SelectSeq(Map(ContactByKey, SelectSeq(ContactsGiven(h), IsDict)),
                             NotNone))

\* C8, amended: rules (a) and (b) need a type that is present and non-empty;
\* with an empty or null type, or a type other than email, uri, url and
\* phone, rules (c) to (e) decide.  normalize_relaxed leaves in a contact
\* list the contacts decided for its mappings, without those decided None.
C8_DecidesByTypeValue ==
    /\ call.fn = "normalize_contact" =>
          IF IsDict(call.arg)
          THEN call.exc = NoExc /\ ret = ContactByValue(call.arg)
          ELSE call.exc = "TypeError"
    /\ \A h \in ContactHolders :
          ContactsLeft(h) =
              List(SelectSeq(Map(ContactByValue, SelectSeq(ContactsGiven(h), IsDict)),
                             NotNone))

\* C8's case: a contact with a type, a falsy value and a city is no
\* contact, rule (b) deciding before rule (c).
C8_Witness ==
    /\ call.fn = "normalize_contact"
    /\ IsDict(call.arg) /\ TypeNonEmpty(call.arg)
    /\ Has(call.arg, "value") /\ ~Truthy(call.arg.d["value"])
    /\ Has(call.arg, "city")
    /\ call.exc = NoExc /\ ret = PyNone

(***************************************************************************)
(* Properties of SpecDocid.                                                *)
(***************************************************************************)
\* The places of raw_ids holding a primary identifier: primary true, id and
\* type present, scope absent.
PrimaryPlaces ==
    {i \in DOMAIN raw_ids :
        /\ raw_ids[i].primary = Bool(TRUE)
        /\ raw_ids[i].id # PyNone /\ raw_ids[i].type # PyNone
        /\ raw_ids[i].scope = PyNone}

\* C4: the warning is logged exactly when the number of distinct (id, type)
\* pairs among the primary identifiers is not 1, two identifiers being
\* distinct whenever they differ in id or in type; the count logged is the
\* number of primary identifiers, duplicates included.
C4_WarnsUnlessOnePair ==
    docid_out.called =>
        /\ docid_out.warned <=>
              Cardinality({<<raw_ids[i].id, raw_ids[i].type>> : i \in PrimaryPlaces}) # 1
        /\ docid_out.count = Cardinality(PrimaryPlaces)

\* C5: get_primary_docid returns the first identifier, in input order, that
\* is primary, and None exactly when none is; warning or not.
C5_ReturnsFirstPrimary ==
    docid_out.called =>
        /\ docid_out.ret = PyNone <=> PrimaryPlaces = {}
        /\ \A i \in PrimaryPlaces :
              (\A j \in PrimaryPlaces : i <= j) => docid_out.ret = raw_ids[i]

\* C5's case: the first identifier has a scope, the second is the first
\* primary one and is returned, and the warning was logged.
C5_Witness ==
    /\ docid_out.called /\ docid_out.warned
    /\ Len(raw_ids) >= 2
    /\ raw_ids[1].scope # PyNone /\ raw_ids[1].primary = Bool(TRUE)
    /\ 2 \in PrimaryPlaces
    /\ docid_out.ret = raw_ids[2] /\ raw_ids[2] # raw_ids[1]

(***************************************************************************)
(* Properties of SpecView.                                                 *)
(***************************************************************************)
\* C9: a request with a non-empty query and a query format that is not
\* supported (whatever its case) is answered 400 "Unsupported query format";
\* no exception leaves get().
C9_UnsupportedFormatIs400 ==
    (/\ view.pc = "done"
     /\ Truthy(RequestQuery(view, request))
     /\ Lower(RequestFormat(request).v) \notin supported_query_formats)
        => response = [kind |-> "response", status |-> 400,
                       body |-> "Unsupported query format"]

\* C10: once dispatch_parse_query has returned, query and query_format are
\* both None or query_format names a handle_<query_format>_query method of
\* the view, and get_queryset raises no AttributeError looking it up.
C10_HandlerResolves ==
    /\ view.pc = "parsed" =>
          \/ view.query = PyNone /\ view.query_format = PyNone
          \/ /\ view.query_format # PyNone
             /\ ("handle_" \o view.query_format.v \o "_query") \in HandlerNames
    /\ view.pc = "done" =>
          response # [kind |-> "exception", status |-> 500,
                      body |-> "AttributeError"]

=============================================================================
